---- MODULE Spec2Model ----
(***************************************************************************)
(* A model of pura's `create` pipeline (src/src/main.rs) and of the IPC    *)
(* rendezvous primitive it is built on (src/src/core/ipc.rs).              *)
(*                                                                         *)
(* Two specifications share the socket state:                              *)
(*   IpcSpec  user listeners and connectors driving IpcParent / IpcChild   *)
(*            directly, as the unit tests of ipc.rs do;                    *)
(*   Spec     one `create` invocation: the parent, the cloned child and    *)
(*            the peers that later connect to run.sock.                    *)
(***************************************************************************)
EXTENDS Integers, Sequences, FiniteSets, TLC

VARIABLES
    sockFile,   \* path -> listener bound to the socket file there, or NoL
    lst,        \* listener -> state of an IpcParent and of its kernel socket
    con,        \* connector -> state of an IpcChild and of its connection
    nops,       \* calls the users of the primitive have made
    spec,       \* invocation -> the parsed config.json
    ppc,        \* invocation -> position of the parent in create()
    ppid,       \* invocation -> pid clone_child returned (0 before)
    phook,      \* invocation -> hooks executed so far in the current list
    plog,       \* invocation -> the string the parent logged with error!()
    cpc,        \* invocation -> position of the child closure
    calive,     \* invocation -> the child process exists and has not ended
    marks,      \* invocation -> milestones the parent and the child have passed
    cenv,       \* invocation -> the child's process environment
    stateJson,  \* <root>/<id>/state.json: NoState or [status, pid]
    pidFile     \* the --pid-file: NoFile or its content, a sequence of digits

netVars  == <<sockFile, lst, con>>
fsVars   == <<stateJson, pidFile>>
parVars  == <<ppc, ppid, phook, plog>>
chVars   == <<cpc, calive, cenv>>
pipeVars == <<spec, parVars, chVars, marks, fsVars>>
vars     == <<netVars, nops, pipeVars>>

(***************************************************************************)
(* Bounds of the model.                                                    *)
(***************************************************************************)
MaxLsn    == 2      \* IpcSpec: listener objects (IpcParent)
MaxConn   == 2      \* IpcSpec: connector objects (IpcChild)
MaxNotify == 1      \* IpcSpec: notify calls per connector
MaxOps    == 6      \* IpcSpec: calls of the primitive in one run
MaxPeers  == 1      \* Spec: processes that connect to run.sock
MaxStart  == 1      \* Spec: notify calls per such process
MaxHooks  == 1      \* Spec: hooks per lifecycle list

(***************************************************************************)
(* Messages.  A message is a run-length encoded string: a sequence of      *)
(* runs [c, n], n >= 1 copies of character c, adjacent runs of different   *)
(* characters.  "sp" is an ASCII whitespace character, "0" the digit 0,    *)
(* "x" any other one-byte character, "e2" a two-byte UTF-8 character.      *)
(***************************************************************************)
BufSize == 1024

Width(c) == IF c = "e2" THEN 2 ELSE 1
IsWhitespace(c) == c = "sp"

Run(c, n) == [c |-> c, n |-> n]

RECURSIVE MsgBytes(_)
MsgBytes(m) ==
    IF m = <<>> THEN 0 ELSE Head(m).n * Width(Head(m).c) + MsgBytes(Tail(m))

\* read(child_socket, &mut buf): the first k bytes of the datagram; the rest
\* of a SEQPACKET datagram is discarded.  partial: the cut fell inside a
\* multi-byte character.
RECURSIVE TakeBytes(_, _)
TakeBytes(m, k) ==
    IF m = <<>> \/ k = 0 THEN [runs |-> <<>>, partial |-> FALSE]
    ELSE LET r == Head(m)
             w == Width(r.c)
         IN  IF r.n * w <= k
             THEN LET rest == TakeBytes(Tail(m), k - r.n * w)
                  IN  [runs |-> <<r>> \o rest.runs, partial |-> rest.partial]
             ELSE [runs    |-> IF k \div w > 0 THEN <<Run(r.c, k \div w)>> ELSE <<>>,
                   partial |-> k % w # 0]

ReadBuf(m) == TakeBytes(m, BufSize)

\* std::str::from_utf8(&buf[0..num])
Utf8Ok(b) == ~b.partial

RECURSIVE TrimStart(_)
TrimStart(s) ==
    IF s = <<>> THEN <<>>
    ELSE IF IsWhitespace(Head(s).c) THEN TrimStart(Tail(s)) ELSE s

RECURSIVE TrimEnd(_)
TrimEnd(s) ==
    IF s = <<>> THEN <<>>
    ELSE IF IsWhitespace(s[Len(s)].c) THEN TrimEnd(SubSeq(s, 1, Len(s) - 1)) ELSE s

\* A trim of the leading whitespace alone.
Trim_StartOnly(s) == TrimStart(s)
\* str::trim
Trim(s) == TrimEnd(TrimStart(s))

\* The value IpcParent::wait computes from the datagram it read.
WaitDecode(d) ==
    LET b == ReadBuf(d)
    IN  IF Utf8Ok(b) THEN [ok |-> TRUE, val |-> Trim(b.runs)]
        ELSE [ok |-> FALSE, val |-> <<>>]

MsgZero   == <<Run("0", 1)>>                                  \* "0"
MsgHello  == <<Run("x", 5)>>                                  \* "hello"
MsgEmpty  == <<>>                                             \* ""
\* " no way\r\n": whitespace at both ends and inside
MsgPadded == <<Run("sp", 1), Run("x", 2), Run("sp", 1), Run("x", 3), Run("sp", 2)>>
MsgFull   == <<Run("sp", 1), Run("x", BufSize - 1)>>          \* fills the buffer
MsgOver   == <<Run("x", BufSize), Run("sp", 1), Run("x", 1)>> \* two bytes too long
MsgSplit  == <<Run("x", 1), Run("e2", BufSize \div 2)>>       \* cut inside a character

IpcMsgs == {MsgHello, MsgEmpty, MsgPadded, MsgFull, MsgOver, MsgSplit}

(***************************************************************************)
(* Sockets.                                                                *)
(***************************************************************************)
Creates  == {1, 2}                      \* create invocations for the one id
InitSock == "init.sock"                 \* <root>/<id>/init.sock
RunSock  == "run.sock"                  \* <root>/<id>/run.sock
IpcPaths == {"tmp1.sock", "tmp2.sock"}
Paths    == {InitSock, RunSock} \cup IpcPaths

UserL  == {<<"h", k>> : k \in 1..MaxLsn}
InitL(i)  == <<"init", i>>
StartL(i) == <<"start", i>>
\* The listener of an earlier create for the id whose process has ended and
\* whose socket file was left at init.sock (1) or run.sock (2).
OldL(k) == <<"old", k>>
Lsn    == UserL \cup {InitL(i) : i \in Creates} \cup {StartL(i) : i \in Creates}
          \cup {OldL(1), OldL(2)}
NoL    == <<"none", 0>>

UserC  == {<<"c", k>> : k \in 1..MaxConn}
PeerC(k) == <<"s", k>>
InitC(i) == <<"ic", i>>
Conn   == UserC \cup {PeerC(k) : k \in 1..MaxPeers} \cup {InitC(i) : i \in Creates}
NoC    == <<"none", 0>>

NoRes  == [kind |-> "none", ok |-> FALSE, val |-> <<>>, src |-> <<>>]
ErrRes == [kind |-> "err", ok |-> FALSE, val |-> <<>>, src |-> <<>>]

\* st: what the IpcParent object's fd is ("none" before new, "open", "closed"
\* by close, "dead" when its process ended).  heir: a cloned child holds an
\* inherited copy of the listening fd.  backlog: connections accept has not
\* returned yet.  acc: the connection the running wait accepted.  res: what
\* the last wait returned.  nret: how many times wait returned Ok.
\* bindErr: the last new for the object returned Err.  closed: what close
\* returned ("none" before).
NewLsn == [st |-> "none", path |-> "", heir |-> FALSE, backlog |-> <<>>,
           acc |-> NoC, res |-> NoRes, nret |-> 0, bindErr |-> FALSE,
           closed |-> "none"]
\* st: the IpcChild object's fd.  to: the listener connected to.  peer: the
\* other end ("queued" in the backlog, "accepted", "gone" once released).
\* q: datagrams written and not yet read.  nsent: notify calls that returned Ok.
\* connErr, sendErr: the last new, the last notify returned Err.
NewCon == [st |-> "none", to |-> NoL, peer |-> "none", q |-> <<>>, nsent |-> 0,
           connErr |-> FALSE, sendErr |-> FALSE]

\* The kernel socket behind listener l lives while some process holds its fd.
Alive(l) == lst[l].st = "open" \/ lst[l].heir

\* A bind that took any path, bound or not.
BindOk_Always(p) == TRUE

\* bind(2) on an AF_UNIX path: EADDRINUSE when a file is at the path, whether
\* or not a socket is still listening behind it.
BindOk(p) == sockFile[p] = NoL

\* connect(2): a socket file whose socket is still listening.
ConnectOk(p) == sockFile[p] # NoL /\ Alive(sockFile[p])

\* IpcParent::new(path) for listener object l.  socket(2) and listen(2) are
\* taken to succeed; bind decides.
IpcParentNew(l, p, ok) ==
    /\ ok = BindOk(p)
    /\ IF ok
       THEN /\ sockFile' = [sockFile EXCEPT ![p] = l]
            /\ lst' = [lst EXCEPT ![l] = [NewLsn EXCEPT !.st = "open", !.path = p]]
       ELSE /\ lst' = [lst EXCEPT ![l].bindErr = TRUE]
            /\ UNCHANGED sockFile

\* IpcParent::wait, first half: accept returns the oldest queued connection.
IpcWaitAccept(l) ==
    /\ lst[l].st = "open"
    /\ lst[l].acc = NoC
    /\ lst[l].backlog # <<>>
    /\ LET c == Head(lst[l].backlog)
       IN  /\ lst' = [lst EXCEPT ![l].backlog = Tail(@), ![l].acc = c]
           /\ con' = [con EXCEPT ![c].peer = "accepted"]

\* accept fails: wait returns Err("unable to accept incoming socket").
IpcWaitAcceptFail(l) ==
    /\ lst[l].st = "open"
    /\ lst[l].acc = NoC
    /\ lst' = [lst EXCEPT ![l].res = ErrRes]

\* What wait returns for the datagram d it read (eof: read returned 0 bytes
\* because the peer had closed, d is then empty).
WaitResult(d, eof) ==
    LET r == WaitDecode(d)
    IN  [kind |-> IF eof THEN "eof" ELSE "msg", ok |-> r.ok, val |-> r.val, src |-> d]

\* IpcParent::wait, second half: read returns one datagram, or 0 bytes once
\* the peer has closed; the result is decoded and trimmed.  The accepted
\* socket is never closed.
IpcWaitRead(l) ==
    /\ lst[l].acc # NoC
    /\ LET c   == lst[l].acc
           eof == con[c].q = <<>>
           r   == WaitResult(IF eof THEN <<>> ELSE Head(con[c].q), eof)
       IN  /\ eof => con[c].st = "closed"
           /\ con' = [con EXCEPT ![c].q = IF eof THEN @ ELSE Tail(@)]
           /\ lst' = [lst EXCEPT ![l].acc = NoC, ![l].res = r,
                                 ![l].nret = IF r.ok THEN @ + 1 ELSE @]

\* A close that closed the fd and left the socket file.
IpcParentClose_KeepsFile(l, ok) ==
    /\ lst[l].st = "open"
    /\ ok = (sockFile[lst[l].path] # NoL)
    /\ lst' = [lst EXCEPT ![l].st = "closed", ![l].backlog = <<>>,
                          ![l].closed = IF ok THEN "ok" ELSE "err"]
    /\ UNCHANGED <<con, sockFile>>

\* A close that removed every socket file instead of its own.
IpcParentClose_All(l, ok) ==
    /\ lst[l].st = "open"
    /\ ok = (sockFile[lst[l].path] # NoL)
    /\ lst' = [lst EXCEPT ![l].st = "closed", ![l].backlog = <<>>,
                          ![l].closed = IF ok THEN "ok" ELSE "err"]
    /\ UNCHANGED con
    /\ sockFile' = [p \in Paths |-> NoL]

\* IpcParent::close: close(fd), then remove_file(sock_path).  Closing the
\* last fd of the listening socket releases the connections still queued.
IpcParentClose(l, ok) ==
    /\ lst[l].st = "open"
    /\ ok = (sockFile[lst[l].path] # NoL)
    /\ lst' = [lst EXCEPT ![l].st = "closed",
                          ![l].backlog = IF lst[l].heir THEN @ ELSE <<>>,
                          ![l].closed = IF ok THEN "ok" ELSE "err"]
    /\ con' = [c \in Conn |->
                 IF con[c].to = l /\ con[c].peer = "queued" /\ ~lst[l].heir
                 THEN [con[c] EXCEPT !.peer = "gone"]
                 ELSE con[c]]
    /\ sockFile' = [sockFile EXCEPT ![lst[l].path] = NoL]

\* A process ends (exit, panic, SIGKILL), or execs (then L and C are empty):
\* the kernel closes its fds.  L: the listeners it created, C: its connectors,
\* H: the listeners it holds an inherited copy of.  from: the connections as
\* they are at that moment.  Socket files stay.
ProcEnds(from, L, C, H) ==
    LET st2(l)    == IF l \in L /\ lst[l].st = "open" THEN "dead" ELSE lst[l].st
        heir2(l)  == lst[l].heir /\ l \notin H
        freed(l)  == Alive(l) /\ st2(l) # "open" /\ ~heir2(l)
        gone(c)   == LET l == from[c].to
                     IN  /\ l # NoL
                         /\ \/ from[c].peer = "queued" /\ freed(l)
                            \/ from[c].peer = "accepted" /\ l \in L
    IN  /\ lst' = [l \in Lsn |->
                     [lst[l] EXCEPT !.st = st2(l), !.heir = heir2(l),
                                    !.backlog = IF freed(l) THEN <<>> ELSE @,
                                    !.acc = IF l \in L THEN NoC ELSE @]]
        /\ con' = [c \in Conn |->
                     [from[c] EXCEPT
                        !.st = IF c \in C /\ @ = "open" THEN "closed" ELSE @,
                        !.peer = IF gone(c) THEN "gone" ELSE @]]

\* IpcChild::new(path) for connector object c.
IpcChildNew(c, p, ok) ==
    /\ con[c].st = "none"
    /\ ok = ConnectOk(p)
    /\ IF ok
       THEN LET l == sockFile[p]
            IN  /\ con' = [con EXCEPT ![c] = [NewCon EXCEPT !.st = "open", !.to = l,
                                                           !.peer = "queued"]]
                /\ lst' = [lst EXCEPT ![l].backlog = Append(@, c)]
       ELSE /\ con' = [con EXCEPT ![c].connErr = TRUE]
            /\ UNCHANGED lst

\* write(fd, msg): one datagram.  EPIPE once the other end is gone.
WriteOk(c) == con[c].st = "open" /\ con[c].peer # "gone"
Written(c, m) == [con EXCEPT ![c].q = Append(@, m), ![c].nsent = @ + 1,
                                ![c].sendErr = FALSE]

\* IpcChild::notify(msg).  What write(2) does with zero bytes on a socket is
\* unspecified: an empty datagram is queued, or nothing is.
IpcChildNotify(c, m, ok) ==
    /\ con[c].st = "open"
    /\ ok = WriteOk(c)
    /\ IF ok
       THEN \/ con' = Written(c, m)
            \/ /\ m = <<>>
               /\ con' = [con EXCEPT ![c].nsent = @ + 1, ![c].sendErr = FALSE]
       ELSE con' = [con EXCEPT ![c].sendErr = TRUE]

\* IpcChild::close
IpcChildClose(c) ==
    /\ con[c].st = "open"
    /\ con' = [con EXCEPT ![c].st = "closed"]

(***************************************************************************)
(* Users of the primitive: listener objects h and connector objects c,     *)
(* each held by a process of its own, calling the methods of ipc.rs in any *)
(* order their types allow.  An object is closed at most once, and a       *)
(* listener blocked in wait calls nothing else.                            *)
(***************************************************************************)
\* One more call, while the run's budget lasts.
Called == nops < MaxOps /\ nops' = nops + 1

\* Objects are interchangeable, so they are taken in order: object k+1 is
\* created after object k.
ULsnNew(h, p) ==
    /\ lst[h].st = "none"
    /\ IF h[2] = 1 THEN TRUE ELSE lst[<<"h", h[2] - 1>>].st # "none"
    /\ \E ok \in BOOLEAN : IpcParentNew(h, p, ok)
    /\ Called /\ UNCHANGED <<con, pipeVars>>

ULsnWaitAccept(h) ==
    /\ IpcWaitAccept(h)
    /\ Called /\ UNCHANGED <<sockFile, pipeVars>>

ULsnWaitAcceptFail(h) ==
    /\ IpcWaitAcceptFail(h)
    /\ Called /\ UNCHANGED <<sockFile, con, pipeVars>>

ULsnWaitRead(h) ==
    /\ IpcWaitRead(h)
    /\ Called /\ UNCHANGED <<sockFile, pipeVars>>

\* read fails: the unwrap in wait panics and the listener's process ends.
ULsnWaitReadFail(h) ==
    /\ lst[h].acc # NoC
    /\ ProcEnds(con, {h}, {}, {})
    /\ Called /\ UNCHANGED <<sockFile, pipeVars>>

ULsnClose(h) ==
    /\ lst[h].acc = NoC
    /\ \E ok \in BOOLEAN : IpcParentClose(h, ok)
    /\ Called /\ UNCHANGED pipeVars

\* The listener's process ends without calling close.
ULsnExit(h) ==
    /\ lst[h].st = "open"
    /\ lst[h].acc = NoC
    /\ ProcEnds(con, {h}, {}, {})
    /\ Called /\ UNCHANGED <<sockFile, pipeVars>>

UConNew(c, p) ==
    /\ IF c[2] = 1 THEN TRUE ELSE con[<<"c", c[2] - 1>>].st # "none"
    /\ \E ok \in BOOLEAN : IpcChildNew(c, p, ok)
    /\ Called /\ UNCHANGED <<sockFile, pipeVars>>

UConNotify(c, m) ==
    /\ con[c].nsent < MaxNotify
    /\ \E ok \in BOOLEAN : IpcChildNotify(c, m, ok)
    /\ Called /\ UNCHANGED <<sockFile, lst, pipeVars>>

UConClose(c) ==
    /\ IpcChildClose(c)
    /\ Called /\ UNCHANGED <<sockFile, lst, pipeVars>>

(***************************************************************************)
(* create(): inputs and files.                                             *)
(***************************************************************************)
\* spec[i]: the fields of config.json create() branches on more than once,
\* each fixed from the moment create first reads it (process with the parse
\* at line 19, env at 159, hooks at 220) and a placeholder before.  The
\* fields it reads once (hostname, mounts, linux.devices, process.args,
\* process.user, --console-socket) are drawn where the code reads them.
\* env: process.env, NoEnv or a list of entries [k, v, eq]; eq: the entry
\* holds a "=".
EnvEntry(k, v) == [k |-> k, v |-> v, eq |-> TRUE]
EnvBare(k)     == [k |-> k, v |-> "", eq |-> FALSE]
EnvChoices == {<<>>, <<EnvEntry("A", "1")>>, <<EnvEntry("A", "1"), EnvBare("B")>>}
NoEnv  == <<EnvBare("none")>>
Unread == <<EnvBare("unread")>>

NoProcess == [present |-> FALSE, terminal |-> FALSE]
Processes == {NoProcess} \cup [present : {TRUE}, terminal : BOOLEAN]

NoSpec == [process |-> NoProcess, env |-> Unread, prestart |-> -1, createRuntime |-> -1]

\* main.rs 27-35
HasTerminal(i) == spec[i].process.present /\ spec[i].process.terminal

\* The environment the runtime was started with.
InheritedEnv == {<<"PATH", "/bin">>}

Pids == {7, 42}
\* The pids clone can return: those of no process that still exists.
FreePids == Pids \ {ppid[j] : j \in {k \in Creates : calive[k]}}

\* format!("{}", pid): the decimal digits of a positive number.
RECURSIVE Digits(_)
Digits(n) == IF n < 10 THEN <<n>> ELSE Append(Digits(n \div 10), n % 10)

NoFile == <<-1>>
\* Content a --pid-file may hold before create runs.
StalePid == <<1, 2, 3>>

\* OpenOptions::new().write(true).create(true).open(): the file is created
\* empty if absent, and an existing file keeps its content (no truncate).
OpenPidFile(f) == IF f = NoFile THEN <<>> ELSE f

\* write_all at offset 0 of the freshly opened file: the bytes replace the
\* first Len(new) bytes and whatever lay beyond them stays.
WriteAt0(old, new) == new \o SubSeq(old, Len(new) + 1, Len(old))

NoState == [status |-> "none", pid |-> 0]
\* State::new(id, pid, bundle)
StateNew(pid) == [status |-> "Creating", pid |-> pid]

\* main.rs 214-217: the loaded document with status and pid replaced.
StateCreated(s, pid) == [s EXCEPT !.status = "Created", !.pid = pid]

\* The strings the child sends when a step fails: "error <step> <err>".
ErrMsg(n) == <<Run("x", 5), Run("sp", 1), Run("x", n), Run("sp", 1), Run("x", 4)>>
ErrTerminal == ErrMsg(19)   \* "error setting up terminal {}"
ErrRootfs   == ErrMsg(15)   \* "error mounting rootfs {}"
ErrMounts   == ErrMsg(16)   \* "error mounting devices {}"
ErrDevices  == ErrMsg(17)   \* "error creating devices {}"
ErrPivot    == ErrMsg(10)   \* "error pivot_root {}"

\* What a start command writes to run.sock.
StartMsgs == {MsgHello}

(***************************************************************************)
(* create(): the parent (main.rs 13-60, 191-243).                          *)
(***************************************************************************)
Goto(i, pc) == ppc' = [ppc EXCEPT ![i] = pc]
Mark(i, m) == marks' = [marks EXCEPT ![i] = @ \cup {m}]

\* The parent's process ends: exit(code), a panic, or main's exit(0).  Its
\* init_lock fd and the socket wait accepted are closed by the kernel.
ParentEnds(i, pc) ==
    /\ Goto(i, pc)
    /\ ProcEnds(con, {InitL(i)}, {}, {})
    /\ UNCHANGED sockFile

\* A load that found config.json unusable only after the pid file was opened.
PLoad_AfterPidFile(i) ==
    /\ ppc[i] = "load"
    /\ \/ \E pr \in Processes :
             /\ spec' = [spec EXCEPT ![i].process = pr]
             /\ Goto(i, "open_pid")
             /\ UNCHANGED <<plog, pidFile>>
       \/ /\ Goto(i, "exit1")
          /\ plog' = [plog EXCEPT ![i] = [kind |-> "spec", msg |-> <<>>]]
          /\ pidFile' = OpenPidFile(pidFile)
          /\ UNCHANGED spec
    /\ UNCHANGED <<nops, netVars, ppid, phook, chVars, marks, stateJson>>

\* 19-25: Spec::try_from(<bundle>/config.json); on Err, error!("{}", err)
\* and exit(1)
PLoad(i) ==
    /\ ppc[i] = "load"
    /\ \/ \E pr \in Processes :
             /\ spec' = [spec EXCEPT ![i].process = pr]
             /\ Goto(i, "open_pid")
             /\ UNCHANGED plog
       \/ /\ Goto(i, "exit1")
          /\ plog' = [plog EXCEPT ![i] = [kind |-> "spec", msg |-> <<>>]]
          /\ UNCHANGED spec
    /\ UNCHANGED <<nops, netVars, ppid, phook, chVars, marks, fsVars>>

\* 37-41: open the pid file
POpenPid(i) ==
    /\ ppc[i] = "open_pid"
    /\ \/ /\ pidFile' = OpenPidFile(pidFile)
          /\ Goto(i, "save_state")
       \/ /\ Goto(i, "panic")
          /\ UNCHANGED pidFile
    /\ UNCHANGED <<nops, netVars, spec, ppid, phook, plog, chVars, marks, stateJson>>

\* 43-46: State::new(id, 0, bundle) saved to <root>/<id>/state.json
PSaveState(i) ==
    /\ ppc[i] = "save_state"
    /\ \/ /\ stateJson' = StateNew(0)
          /\ Goto(i, "pty_socket")
       \/ /\ Goto(i, "panic")
          /\ UNCHANGED stateJson
    /\ UNCHANGED <<nops, netVars, spec, ppid, phook, plog, chVars, marks, pidFile>>

\* 48-57: the console socket, when process.terminal is true
PPtySocket(i) ==
    /\ ppc[i] = "pty_socket"
    /\ \/ Goto(i, "init_lock")                       \* no terminal, or connected
       \/ HasTerminal(i) /\ Goto(i, "exit1")         \* PtySocket::new failed
       \/ HasTerminal(i) /\ Goto(i, "panic")         \* no --console-socket
    /\ UNCHANGED <<nops, netVars, spec, ppid, phook, plog, chVars, marks, fsVars>>

\* 59-60: IpcParent::new(<root>/<id>/init.sock).unwrap()
PInitLock(i) ==
    /\ ppc[i] = "init_lock"
    /\ \E ok \in BOOLEAN :
          /\ IpcParentNew(InitL(i), InitSock, ok)
          /\ Goto(i, IF ok THEN "clone" ELSE "panic")
    /\ UNCHANGED <<nops, con, spec, ppid, phook, plog, chVars, marks, fsVars>>

\* 62, 191: clone_child(closure).expect("error forking child").  The child
\* starts with a copy of the parent's fds.
PClone(i) ==
    /\ ppc[i] = "clone"
    /\ \/ \E pid \in FreePids :
             /\ ppid' = [ppid EXCEPT ![i] = pid]
             /\ cpc' = [cpc EXCEPT ![i] = "start_lock"]
             /\ calive' = [calive EXCEPT ![i] = TRUE]
             /\ lst' = [lst EXCEPT ![InitL(i)].heir = TRUE]
             /\ Goto(i, "wait")
             /\ UNCHANGED <<sockFile, con>>
       \/ /\ ParentEnds(i, "panic")
          /\ UNCHANGED <<ppid, cpc, calive>>
    /\ UNCHANGED <<nops, spec, phook, plog, marks, cenv, fsVars>>

\* 194: init_lock.wait(), accept
PWaitAccept(i) ==
    /\ ppc[i] = "wait"
    /\ IpcWaitAccept(InitL(i))
    /\ UNCHANGED <<nops, sockFile, pipeVars>>

\* 194, 203-206: accept fails; error!("error with init_lock {}"), exit(2)
PWaitAcceptFail(i) ==
    /\ ppc[i] = "wait"
    /\ lst[InitL(i)].acc = NoC
    /\ ParentEnds(i, "exit2")
    /\ plog' = [plog EXCEPT ![i] = [kind |-> "lock", msg |-> <<>>]]
    /\ UNCHANGED <<nops, spec, ppid, phook, chVars, marks, fsVars>>

\* 194: init_lock.wait(), read and decode
PWaitRead(i) ==
    /\ ppc[i] = "wait"
    /\ IpcWaitRead(InitL(i))
    /\ Goto(i, "check")
    /\ UNCHANGED <<nops, sockFile, spec, ppid, phook, plog, chVars, marks, fsVars>>

\* ipc.rs 55: read fails and the unwrap in wait panics
PWaitReadFail(i) ==
    /\ ppc[i] = "wait"
    /\ lst[InitL(i)].acc # NoC
    /\ ParentEnds(i, "panic")
    /\ UNCHANGED <<nops, spec, ppid, phook, plog, chVars, marks, fsVars>>

\* A check that took any message for the success signal.
ChildPrepared_Any(r) == r.ok
\* A check that took any non-empty message for the success signal.
ChildPrepared_NonEmpty(r) == r.ok /\ r.val # <<>>
\* 196: str.eq("0")
ChildPrepared(r) == r.ok /\ r.val = MsgZero

\* 195-207: the match on what wait returned
PCheck(i) ==
    /\ ppc[i] = "check"
    /\ LET r == lst[InitL(i)].res
       IN  IF ChildPrepared(r)
           THEN /\ Goto(i, "close_init")
                /\ UNCHANGED <<netVars, plog>>
           ELSE /\ ParentEnds(i, "exit2")
                /\ plog' = [plog EXCEPT ![i] =
                              [kind |-> IF r.ok THEN "child" ELSE "lock",
                               msg |-> r.val]]
    /\ UNCHANGED <<nops, spec, ppid, phook, chVars, marks, fsVars>>

\* 208: init_lock.close().unwrap()
PCloseInit(i) ==
    /\ ppc[i] = "close_init"
    /\ \E ok \in BOOLEAN :
          /\ IpcParentClose(InitL(i), ok)
          /\ Goto(i, IF ok THEN "write_pid" ELSE "panic")
    /\ UNCHANGED <<nops, spec, ppid, phook, plog, chVars, marks, fsVars>>

\* 211: pid_file.write_all(format!("{}", pid).as_bytes()).unwrap()
PWritePid(i) ==
    /\ ppc[i] = "write_pid"
    /\ \/ /\ pidFile' = WriteAt0(pidFile, Digits(ppid[i]))
          /\ Mark(i, "pid_written")
          /\ Goto(i, "update_state")
          /\ UNCHANGED netVars
       \/ /\ ParentEnds(i, "panic")
          /\ UNCHANGED <<pidFile, marks>>
    /\ UNCHANGED <<nops, spec, ppid, phook, plog, chVars, stateJson>>

\* Where the parent goes after the state update, and after each hook.
\* n: hooks of `list` run so far.  220-234: an absent hooks section or list
\* is an empty loop.
AfterHooks(sp, list, n) ==
    IF list = "prestart" /\ n < sp.prestart THEN "prestart"
    ELSE IF list = "prestart" /\ sp.createRuntime > 0 THEN "create_runtime"
    ELSE IF list = "create_runtime" /\ n < sp.createRuntime THEN "create_runtime"
    ELSE "cleanup"

\* 214-217: load state.json, set status and pid, save
PUpdateState(i) ==
    /\ ppc[i] = "update_state"
    /\ \/ /\ stateJson # NoState
          /\ stateJson' = StateCreated(stateJson, ppid[i])
          /\ Mark(i, "created")
          /\ \E np, nc \in 0..MaxHooks :
                /\ spec' = [spec EXCEPT ![i].prestart = np, ![i].createRuntime = nc]
                /\ Goto(i, AfterHooks(spec'[i], "prestart", 0))
          /\ UNCHANGED netVars
       \/ /\ ParentEnds(i, "panic")
          /\ UNCHANGED <<stateJson, spec, marks>>
    /\ UNCHANGED <<nops, ppid, phook, plog, chVars, pidFile>>

\* A process of the child ends (return, exit, panic, SIGKILL): its start_lock,
\* its init-lock client and its copy of the parent's init_lock fd are closed.
ChildEnds(i, pc, from) ==
    /\ cpc' = [cpc EXCEPT ![i] = pc]
    /\ calive' = [calive EXCEPT ![i] = FALSE]
    /\ ProcEnds(from, {StartL(i)}, {InitC(i)}, {InitL(i)})
    /\ UNCHANGED sockFile

\* fork::signal(pid, 9): SIGKILL to the child, whatever it is doing.  The
\* parent never reaps the child, so the pid stays valid and kill succeeds.
Signal9(i) ==
    IF calive[i] THEN ChildEnds(i, "killed", con)
    ELSE UNCHANGED <<netVars, cpc, calive>>

\* 221-226 and 228-233: one iteration of a hook loop, exec_hook(..).expect(..)
\* and then signal(pid, 9).unwrap().
PHook(i, list) ==
    /\ ppc[i] = list
    /\ \/ LET n == phook[i] + 1
              next == AfterHooks(spec[i], list, n)
          IN  /\ Goto(i, next)
              /\ phook' = [phook EXCEPT ![i] = IF next = list THEN n ELSE 0]
              /\ Signal9(i)
              /\ UNCHANGED marks
       \/ /\ ParentEnds(i, "panic")
          /\ Mark(i, "hook_failed")
          /\ UNCHANGED <<phook, cpc, calive>>
    /\ UNCHANGED <<nops, spec, ppid, plog, cenv, fsVars>>

PPrestart(i) == PHook(i, "prestart")
PCreateRuntime(i) == PHook(i, "create_runtime")

\* 236-243: close the console socket, return; main then calls exit(0)
PCleanup(i) ==
    /\ ppc[i] = "cleanup"
    /\ ParentEnds(i, "returned")
    /\ UNCHANGED <<nops, spec, ppid, phook, plog, chVars, marks, fsVars>>

(***************************************************************************)
(* create(): the child closure (main.rs 62-190).                           *)
(***************************************************************************)
CGoto(i, pc) == cpc' = [cpc EXCEPT ![i] = pc]

\* init_lock_child.notify(&format!(..)).unwrap(); exit_msg(1, ..)
ChildFail(i, msg) ==
    IF WriteOk(InitC(i))
    THEN ChildEnds(i, "exit1", Written(InitC(i), msg))
    ELSE ChildEnds(i, "panic", con)

\* 71: IpcParent::new(<root>/<id>/run.sock).unwrap()
CStartLock(i) ==
    /\ cpc[i] = "start_lock"
    /\ IF BindOk(RunSock)
       THEN /\ IpcParentNew(StartL(i), RunSock, TRUE)
            /\ CGoto(i, "init_conn")
            /\ UNCHANGED <<con, calive>>
       ELSE ChildEnds(i, "panic", con)
    /\ UNCHANGED <<nops, spec, parVars, marks, cenv, fsVars>>

\* 72: IpcChild::new(<root>/<id>/init.sock).unwrap()
CInitConn(i) ==
    /\ cpc[i] = "init_conn"
    /\ IF ConnectOk(InitSock)
       THEN /\ IpcChildNew(InitC(i), InitSock, TRUE)
            /\ CGoto(i, "pty")
            /\ UNCHANGED <<sockFile, calive>>
       ELSE ChildEnds(i, "panic", con)
    /\ UNCHANGED <<nops, spec, parVars, marks, cenv, fsVars>>

\* 76-90: Pty::new, pty.connect().unwrap(), send_pty(&pty).unwrap()
CPty(i) ==
    /\ cpc[i] = "pty"
    /\ \/ /\ CGoto(i, "rootfs")                          \* no terminal, or set up
          /\ UNCHANGED <<netVars, calive>>
       \/ HasTerminal(i) /\ ChildFail(i, ErrTerminal)    \* Pty::new failed
       \/ HasTerminal(i) /\ ChildEnds(i, "panic", con)   \* connect or send_pty failed
    /\ UNCHANGED <<nops, spec, parVars, marks, cenv, fsVars>>

\* A step `match f(..) { Ok(_) => (), Err(err) => { notify; exit_msg } }`
CStep(i, pc, next, msg) ==
    /\ cpc[i] = pc
    /\ \/ /\ CGoto(i, next)
          /\ UNCHANGED <<netVars, calive>>
       \/ ChildFail(i, msg)
    /\ UNCHANGED <<nops, spec, parVars, marks, cenv, fsVars>>

\* 93-99: mount_rootfs
CRootfs(i) == CStep(i, "rootfs", "mounts", ErrRootfs)
\* 101-109: mount_devices, when spec.mounts is set
CMounts(i) == CStep(i, "mounts", "devices", ErrMounts)
\* 111-121: create_devices, when linux.devices is set
CDevices(i) == CStep(i, "devices", "default_devices", ErrDevices)

\* A call whose outcome the closure does not look at: it returns, or it
\* panics and the child ends.
CCall(i, pc, next) ==
    /\ cpc[i] = pc
    /\ \/ /\ CGoto(i, next)
          /\ UNCHANGED <<netVars, calive>>
       \/ ChildEnds(i, "panic", con)
    /\ UNCHANGED <<nops, spec, parVars, marks, cenv, fsVars>>

\* 123: create_default_devices(&rootfs)
CDefaultDevices(i) == CCall(i, "default_devices", "symlinks")
\* 126: symlinks_defaults(&rootfs)
CSymlinks(i) == CCall(i, "symlinks", "pivot")

\* 128-134: the second mount_rootfs, the step reported as pivot_root
CPivot(i) ==
    /\ cpc[i] = "pivot"
    /\ \/ /\ CGoto(i, "notify0")
          /\ Mark(i, "fs")
          /\ UNCHANGED <<netVars, calive>>
       \/ /\ ChildFail(i, ErrPivot)
          /\ UNCHANGED marks
    /\ UNCHANGED <<nops, spec, parVars, cenv, fsVars>>

\* 136: init_lock_child.notify(&"0".to_string()).unwrap()
CNotify0(i) ==
    /\ cpc[i] = "notify0"
    /\ IF WriteOk(InitC(i))
       THEN /\ con' = Written(InitC(i), MsgZero)
            /\ CGoto(i, "close_init")
            /\ Mark(i, "sent0")
            /\ UNCHANGED <<sockFile, lst, calive>>
       ELSE /\ ChildEnds(i, "panic", con)
            /\ UNCHANGED marks
    /\ UNCHANGED <<nops, spec, parVars, cenv, fsVars>>

\* 137: init_lock_child.close().unwrap()
CCloseInit(i) ==
    /\ cpc[i] = "close_init"
    /\ IpcChildClose(InitC(i))
    /\ CGoto(i, "hostname")
    /\ UNCHANGED <<sockFile, lst, calive>>
    /\ UNCHANGED <<nops, spec, parVars, marks, cenv, fsVars>>

\* 139-141: sethostname(hostname).unwrap(), when spec.hostname is set
CHostname(i) == CCall(i, "hostname", "process")

\* 144-157: no process section: the closure returns 0.  Otherwise
\* process.args.as_ref().unwrap() and the CString conversions.
CProcess(i) ==
    /\ cpc[i] = "process"
    /\ IF spec[i].process.present
       THEN \/ /\ CGoto(i, "env")
               /\ UNCHANGED <<netVars, calive>>
            \/ ChildEnds(i, "panic", con)
       ELSE ChildEnds(i, "exit0", con)
    /\ UNCHANGED <<nops, spec, parVars, marks, cenv, fsVars>>

\* std::env::set_var for every entry that holds a "="
RECURSIVE SetVars(_, _)
SetVars(env, entries) ==
    IF entries = <<>> THEN env
    ELSE LET e == Head(entries)
         IN  SetVars(IF e.eq THEN {kv \in env : kv[1] # e.k} \cup {<<e.k, e.v>>}
                     ELSE env,
                     Tail(entries))

\* 159-169: when process.env is set, remove every variable, then set those
\* of process.env
Sanitized(env, penv) == IF penv = NoEnv THEN env ELSE SetVars({}, penv)

CEnv(i) ==
    /\ cpc[i] = "env"
    /\ \E e \in EnvChoices \cup {NoEnv} :
          /\ spec' = [spec EXCEPT ![i].env = e]
          /\ cenv' = [cenv EXCEPT ![i] = Sanitized(@, e)]
    /\ CGoto(i, "start_wait")
    /\ UNCHANGED <<nops, netVars, parVars, calive, marks, fsVars>>

\* 171: start_lock.wait(), accept
CStartAccept(i) ==
    /\ cpc[i] = "start_wait"
    /\ IpcWaitAccept(StartL(i))
    /\ UNCHANGED <<nops, sockFile, pipeVars>>

\* 171: accept fails, wait returns Err and unwrap_or(String::new()) drops it
CStartAcceptFail(i) ==
    /\ cpc[i] = "start_wait"
    /\ IpcWaitAcceptFail(StartL(i))
    /\ CGoto(i, "close_start")
    /\ UNCHANGED <<nops, sockFile, con, spec, parVars, calive, marks, cenv, fsVars>>

\* 171: start_lock.wait(), read and decode; whatever it returns is dropped
CStartRead(i) ==
    /\ cpc[i] = "start_wait"
    /\ IpcWaitRead(StartL(i))
    /\ CGoto(i, "close_start")
    /\ UNCHANGED <<nops, sockFile, spec, parVars, calive, marks, cenv, fsVars>>

\* ipc.rs 55: read fails and the unwrap in wait panics
CStartReadFail(i) ==
    /\ cpc[i] = "start_wait"
    /\ lst[StartL(i)].acc # NoC
    /\ ChildEnds(i, "panic", con)
    /\ UNCHANGED <<nops, spec, parVars, marks, cenv, fsVars>>

\* 172: start_lock.close().unwrap_or(())
CCloseStart(i) ==
    /\ cpc[i] = "close_start"
    /\ \E ok \in BOOLEAN : IpcParentClose(StartL(i), ok)
    /\ CGoto(i, "setuid")
    /\ UNCHANGED <<nops, spec, parVars, calive, marks, cenv, fsVars>>

\* 174-177: setuid(..).unwrap(), setgid(..).unwrap(), when process.user is set
CSetuid(i) == CCall(i, "setuid", "chdir")
\* 179: chdir(process.cwd).unwrap()
CChdir(i) == CCall(i, "chdir", "exec")

\* 180-187: execvp; on success the container process runs in the child's
\* place and the close-on-exec fds are closed; on failure exit(1)
CExec(i) ==
    /\ cpc[i] = "exec"
    /\ \/ /\ CGoto(i, "running")
          /\ ProcEnds(con, {}, {}, {InitL(i)})
          /\ UNCHANGED <<sockFile, calive>>
       \/ ChildEnds(i, "exit1", con)
    /\ UNCHANGED <<nops, spec, parVars, marks, cenv, fsVars>>

(***************************************************************************)
(* The specifications.                                                     *)
(***************************************************************************)
NoLog == [kind |-> "none", msg |-> <<>>]

InitNet ==
    /\ lst = [l \in Lsn |-> NewLsn]
    /\ con = [c \in Conn |-> NewCon]
    /\ nops = 0

InitPipe(first) ==
    /\ ppc = [i \in Creates |-> IF i = 1 THEN first ELSE "off"]
    /\ ppid = [i \in Creates |-> 0]
    /\ phook = [i \in Creates |-> 0]
    /\ plog = [i \in Creates |-> NoLog]
    /\ cpc = [i \in Creates |-> "none"]
    /\ calive = [i \in Creates |-> FALSE]
    /\ marks = [i \in Creates |-> {}]
    /\ cenv = [i \in Creates |-> InheritedEnv]
    /\ stateJson = NoState

\* The primitive on its own: nothing bound, nothing connected.
IpcInit ==
    /\ InitNet
    /\ sockFile = [p \in Paths |-> NoL]
    /\ InitPipe("off")
    /\ spec = [i \in Creates |-> NoSpec]
    /\ pidFile = NoFile

IpcNext ==
    \/ \E h \in UserL : \E p \in IpcPaths : ULsnNew(h, p)
    \/ \E h \in UserL : ULsnWaitAccept(h)
    \/ \E h \in UserL : ULsnWaitAcceptFail(h)
    \/ \E h \in UserL : ULsnWaitRead(h)
    \/ \E h \in UserL : ULsnWaitReadFail(h)
    \/ \E h \in UserL : ULsnClose(h)
    \/ \E h \in UserL : ULsnExit(h)
    \/ \E c \in UserC : \E p \in IpcPaths : UConNew(c, p)
    \/ \E c \in UserC : \E m \in IpcMsgs : UConNotify(c, m)
    \/ \E c \in UserC : UConClose(c)

IpcSpec == IpcInit /\ [][IpcNext]_vars

\* One create(id).  An earlier create for the id may have left its socket
\* files and a pid file behind.
Init ==
    /\ InitNet
    /\ \E a, b \in BOOLEAN :
          sockFile = [p \in Paths |->
                        IF p = InitSock /\ a THEN OldL(1)
                        ELSE IF p = RunSock /\ b THEN OldL(2) ELSE NoL]
    /\ InitPipe("load")
    /\ spec = [i \in Creates |-> NoSpec]
    /\ pidFile \in {NoFile, StalePid}

Parent(i) ==
    \/ PLoad(i) \/ POpenPid(i) \/ PSaveState(i) \/ PPtySocket(i)
    \/ PInitLock(i) \/ PClone(i)
    \/ PWaitAccept(i) \/ PWaitAcceptFail(i) \/ PWaitRead(i) \/ PWaitReadFail(i)
    \/ PCheck(i) \/ PCloseInit(i) \/ PWritePid(i) \/ PUpdateState(i)
    \/ PPrestart(i) \/ PCreateRuntime(i) \/ PCleanup(i)

Child(i) ==
    \/ CStartLock(i) \/ CInitConn(i) \/ CPty(i)
    \/ CRootfs(i) \/ CMounts(i) \/ CDevices(i)
    \/ CDefaultDevices(i) \/ CSymlinks(i) \/ CPivot(i)
    \/ CNotify0(i) \/ CCloseInit(i) \/ CHostname(i) \/ CProcess(i) \/ CEnv(i)
    \/ CStartAccept(i) \/ CStartAcceptFail(i) \/ CStartRead(i) \/ CStartReadFail(i)
    \/ CCloseStart(i) \/ CSetuid(i) \/ CChdir(i) \/ CExec(i)

\* The processes that connect to run.sock with an IpcChild (a later start
\* command), taken in order: peer k+1 connects after peer k.  A call that
\* fails changes nothing.
PeerNew(k) ==
    /\ IF k = 1 THEN TRUE ELSE con[PeerC(k - 1)].st # "none"
    /\ IpcChildNew(PeerC(k), RunSock, TRUE)
    /\ UNCHANGED <<sockFile, nops, pipeVars>>

PeerNotify(k, m) ==
    /\ con[PeerC(k)].nsent < MaxStart
    /\ IpcChildNotify(PeerC(k), m, TRUE)
    /\ UNCHANGED <<sockFile, lst, nops, pipeVars>>

PeerClose(k) ==
    /\ IpcChildClose(PeerC(k))
    /\ UNCHANGED <<sockFile, lst, nops, pipeVars>>

Peer(k) ==
    \/ PeerNew(k)
    \/ \E m \in StartMsgs : PeerNotify(k, m)
    \/ PeerClose(k)

Next ==
    \/ \E i \in Creates : Parent(i)
    \/ \E i \in Creates : Child(i)
    \/ \E k \in 1..MaxPeers : Peer(k)

Spec == Init /\ [][Next]_vars

\* Repeated create(id): the runtime is invoked again for the same id, root
\* and pid file.  The runs taken are those in which an invocation starts
\* once the one before has returned, its child possibly still there, and in
\* which no process connects to run.sock.  Nothing is on disk at the start.
PStart(i) ==
    /\ ppc[i] = "off"
    /\ i > 1 /\ ppc[i - 1] = "returned"
    /\ Goto(i, "load")
    /\ UNCHANGED <<nops, netVars, spec, ppid, phook, plog, chVars, marks, fsVars>>

RepeatInit ==
    /\ InitNet
    /\ sockFile = [p \in Paths |-> NoL]
    /\ InitPipe("load")
    /\ spec = [i \in Creates |-> NoSpec]
    /\ pidFile = NoFile

\* The child with nobody connecting to its start-lock.
ChildAlone(i) ==
    \/ CStartLock(i) \/ CInitConn(i) \/ CPty(i)
    \/ CRootfs(i) \/ CMounts(i) \/ CDevices(i)
    \/ CDefaultDevices(i) \/ CSymlinks(i) \/ CPivot(i)
    \/ CNotify0(i) \/ CCloseInit(i) \/ CHostname(i) \/ CProcess(i) \/ CEnv(i)
    \/ CStartAcceptFail(i)
    \/ CCloseStart(i) \/ CSetuid(i) \/ CChdir(i) \/ CExec(i)

RepeatNext ==
    \/ \E i \in Creates : Parent(i)
    \/ \E i \in Creates : ChildAlone(i)
    \/ \E i \in Creates : PStart(i)

RepeatSpec == RepeatInit /\ [][RepeatNext]_vars

(***************************************************************************)
(* Properties of create (Spec).                                            *)
(***************************************************************************)
\* C1: after a create that returned successfully, state.json has status
\* Created and a pid > 0 that is the pid of the cloned child, and the
\* content of the pid file is that number.
C1_ReturnedCreateRecordsPid ==
    \A i \in Creates :
        ppc[i] = "returned"
        => /\ stateJson.status = "Created"
           /\ stateJson.pid > 0
           /\ stateJson.pid = ppid[i]
           /\ pidFile = Digits(ppid[i])

\* Where the child is between its success signal and the return of
\* start_lock.wait(): on its way to the start-lock or blocked on it.
BeforeStart == {"close_init", "hostname", "process", "env", "start_wait"}

\* C2: whenever state.json has status Created, its pid is > 0 and is the
\* pid of a child that is alive and has not got past the wait on the
\* start-lock.
C2_CreatedChildWaits ==
    stateJson.status = "Created"
    => /\ stateJson.pid > 0
       /\ \E i \in Creates :
             ppid[i] = stateJson.pid /\ calive[i] /\ cpc[i] \in BeforeStart

\* The parent is blocked in accept on the init-lock and no connection is
\* queued.
ParentBlocked(i) ==
    /\ ppc[i] = "wait"
    /\ lst[InitL(i)].acc = NoC
    /\ lst[InitL(i)].backlog = <<>>

\* C3: once the child has failed before sending "0", the child has ended,
\* create does not report success (no pid file write, no Created, no return)
\* and create is not left blocked on the init-lock with nothing to arrive.
C3_ChildFailureEndsCreate ==
    \A i \in Creates :
        (cpc[i] \in {"exit1", "panic"} /\ "sent0" \notin marks[i])
        => /\ ~calive[i]
           /\ marks[i] \cap {"pid_written", "created"} = {}
           /\ ppc[i] # "returned"
           /\ ~ParentBlocked(i)

\* C4: init.sock does not exist once a create has finished, by returning
\* or by the exit after the child reported its failure.
C4_InitSockGoneAfterCreate ==
    \A i \in Creates :
        (ppc[i] = "returned" \/ (ppc[i] = "exit2" /\ plog[i].kind = "child"))
        => sockFile[InitSock] = NoL

\* C5: the pid file is written and state.json becomes Created only after
\* the child has completed the filesystem setup, pivot included.
C5_RecordsAfterFilesystem ==
    \A i \in Creates :
        marks[i] \cap {"pid_written", "created"} # {} => "fs" \in marks[i]

\* A create has written the pid file and set Created, its child having
\* completed the filesystem setup.
C5_Witness ==
    \E i \in Creates : {"fs", "pid_written", "created"} \subseteq marks[i]

\* C6: the child is past start_lock.wait() (closing the start-lock, setuid,
\* chdir, exec, the container process) only if a notify was made on a
\* connection to its run.sock.
C6_ReleasedOnlyByNotify ==
    \A i \in Creates :
        cpc[i] \in {"close_start", "setuid", "chdir", "exec", "running"}
        => \E k \in 1..MaxPeers :
              con[PeerC(k)].to = StartL(i) /\ con[PeerC(k)].nsent > 0

\* C12: when a prestart or createRuntime hook has failed, create has failed,
\* state.json has status Stopped and the init process is dead.
C12_HookFailureStops ==
    \A i \in Creates :
        "hook_failed" \in marks[i]
        => /\ ppc[i] \in {"exit1", "exit2", "panic"}
           /\ stateJson.status = "Stopped"
           /\ ~calive[i]

\* C13: when config.json is missing or malformed, create exits with code 1
\* having allocated nothing: the pid file is not created, state.json is not
\* written, neither init.sock nor run.sock is created and no child is cloned.
C13_SpecErrorAllocatesNothing ==
    \A i \in Creates :
        plog[i].kind = "spec"
        => /\ ppc[i] = "exit1"
           /\ pidFile \in {NoFile, StalePid}
           /\ stateJson = NoState
           /\ lst[InitL(i)] = NewLsn /\ lst[StartL(i)] = NewLsn
           /\ sockFile[InitSock] \notin {InitL(i), StartL(i)}
           /\ sockFile[RunSock] \notin {InitL(i), StartL(i)}
           /\ con[InitC(i)] = NewCon
           /\ ppid[i] = 0 /\ cpc[i] = "none" /\ ~calive[i]

\* A create has exited with code 1 on an unusable config.json.
C13_Witness ==
    \E i \in Creates : plog[i].kind = "spec" /\ ppc[i] = "exit1"

\* Where the parent is once it has taken the message for the success signal.
OnSuccessPath == {"close_init", "write_pid", "update_state", "prestart",
                  "create_runtime", "cleanup", "returned"}

\* C11: the parent goes on to write the pid file and to set Created only if
\* the message it received on the init-lock is "0", and it does go on when
\* the message is "0"; when it has exited with code 2 the message was not
\* "0" (or wait failed), the pid file holds what it held when it was opened
\* and state.json still has status Creating and pid 0.
C11_RecordsIffZero ==
    \A i \in Creates :
        LET r == lst[InitL(i)].res
            zero == r.kind = "msg" /\ r.ok /\ r.src = MsgZero
        IN  /\ (ppc[i] \in OnSuccessPath \/ marks[i] \cap {"pid_written", "created"} # {})
               => zero
            /\ ppc[i] = "exit2"
               => /\ ~zero
                  /\ marks[i] \cap {"pid_written", "created"} = {}
                  /\ pidFile \in {<<>>, StalePid}
                  /\ stateJson = [status |-> "Creating", pid |-> 0]

\* The parent has exited with code 2 on an error string of the child, with
\* state.json still Creating.
C11_Witness ==
    \E i \in Creates :
        /\ ppc[i] = "exit2"
        /\ plog[i].kind = "child" /\ plog[i].msg \notin {<<>>, MsgZero}
        /\ stateJson.status = "Creating"

\* C14: run.sock does not outlive the child that created it: once the
\* child has exited, on a setup failure or because the spec has no process
\* section, the socket file its start-lock bound is gone.
C14_RunSockGoneWithChild ==
    \A i \in Creates :
        cpc[i] \in {"exit0", "exit1"} => sockFile[RunSock] # StartL(i)

\* Where the child is while sethostname is still to be called.
BeforeHostname == {"start_lock", "init_conn", "pty", "rootfs", "mounts", "devices",
                   "default_devices", "symlinks", "pivot", "notify0", "close_init",
                   "hostname"}

\* C16: when the child has sent "0" on the init-lock, sethostname has
\* already been called.
C16_HostnameBeforeZero ==
    \A i \in Creates : "sent0" \in marks[i] => cpc[i] \notin BeforeHostname

\* The steps of the child the terminal and the filesystem are set up in.
SetupSteps == {"pty", "rootfs", "mounts", "devices", "pivot"}

\* C17: a child that fails in a terminal or filesystem step has sent one
\* message on the init-lock, a non-empty string other than "0", and has
\* exited with code 1.
C17_FailureReportedOnce ==
    [][\A i \in Creates :
          (cpc[i] \in SetupSteps /\ cpc'[i] \notin SetupSteps \cup {"default_devices", "notify0"})
          => /\ cpc'[i] = "exit1"
             /\ con'[InitC(i)].nsent = 1
             /\ con'[InitC(i)].q # <<>>
             /\ con'[InitC(i)].q[1] \notin {<<>>, MsgZero}
             /\ "sent0" \notin marks'[i]]_vars

\* The environment process.env asks for: its KEY=VALUE entries and nothing
\* else, nothing at all when process.env is absent.
WantedEnv(penv) ==
    IF penv = NoEnv THEN {}
    ELSE {<<penv[n].k, penv[n].v>> : n \in {x \in 1..Len(penv) : penv[x].eq}}

\* C19: when the child blocks on the start-lock its environment consists
\* of the KEY=VALUE entries of process.env, and is empty when process.env
\* is absent or empty.
C19_EnvSanitized ==
    \A i \in Creates :
        cpc[i] = "start_wait" => cenv[i] = WantedEnv(spec[i].env)

(***************************************************************************)
(* Properties of repeated create (RepeatSpec).                             *)
(***************************************************************************)
\* C20: once a create(id) has returned successfully, state.json keeps
\* status Created with the pid of its child, and a further create(id) that
\* has been started does not return successfully, is not left blocked on
\* its init-lock and, once ended, has left no child of its own behind.
C20_FirstCreateStands ==
    \A i, j \in Creates :
        (i # j /\ ppc[i] = "returned" /\ ppc[j] # "off")
        => /\ stateJson = [status |-> "Created", pid |-> ppid[i]]
           /\ ppc[j] # "returned"
           /\ ~ParentBlocked(j)
           /\ ~(ppc[j] \in {"exit1", "exit2", "panic"} /\ calive[j])

(***************************************************************************)
(* Properties of the primitive (IpcSpec).                                  *)
(***************************************************************************)
\* v is s with the whitespace at both ends taken away and nothing else:
\* s is whitespace runs, then v, then whitespace runs, and v neither starts
\* nor ends with whitespace.
IsTrimOf(v, s) ==
    /\ v # <<>> => ~IsWhitespace(v[1].c) /\ ~IsWhitespace(v[Len(v)].c)
    /\ \E i \in 0..Len(s) : \E j \in i..Len(s) :
          /\ v = SubSeq(s, i + 1, j)
          /\ \A k \in 1..i : IsWhitespace(s[k].c)
          /\ \A k \in (j + 1)..Len(s) : IsWhitespace(s[k].c)

\* C7: when notify(m) was called with a UTF-8 message of at most 1024 bytes
\* and wait returns for that message, wait returns Ok(m with leading and
\* trailing whitespace removed); "hello" is returned unchanged.
C7_WaitReturnsTrimmed ==
    \A h \in UserL :
        LET r == lst[h].res
        IN  r.kind = "msg" /\ MsgBytes(r.src) <= BufSize
            => /\ r.ok
               /\ IsTrimOf(r.val, r.src)
               /\ r.src = MsgHello => r.val = MsgHello

\* A wait has returned a message that was sent with whitespace at both ends.
C7_Witness ==
    \E h \in UserL :
        /\ lst[h].res.kind = "msg" /\ lst[h].res.ok
        /\ lst[h].res.src = MsgPadded
        /\ lst[h].res.val # MsgPadded

\* The notify calls that returned Ok on the connections made to listener l.
RECURSIVE SumSent(_)
SumSent(C) ==
    IF C = {} THEN 0
    ELSE LET c == CHOOSE x \in C : TRUE IN con[c].nsent + SumSent(C \ {c})
SentTo(l) == SumSent({c \in Conn : con[c].to = l})

\* C8: every value wait returns is the message of one notify call of its
\* own: a listener's wait has not returned Ok more often than notify was
\* called on the connections made to it.
C8_OneReturnPerNotify ==
    \A h \in UserL : lst[h].nret <= SentTo(h)

\* C9: while a listener is bound to a path, every other new on that path
\* fails and changes nothing of the bound listener; at most one listener is
\* bound to a path; and close of the bound listener returns Ok.
C9_OneListenerPerPath ==
    /\ [](\A h1, h2 \in UserL :
            /\ lst[h1].closed # "err"
            /\ (h1 # h2 /\ lst[h1].st = "open" /\ lst[h2].st = "open")
               => lst[h1].path # lst[h2].path)
    /\ [][\A h \in UserL : \A p \in IpcPaths :
            (ULsnNew(h, p) /\ \E h1 \in UserL : lst[h1].st = "open" /\ lst[h1].path = p)
            => /\ lst'[h].st = "none" /\ lst'[h].bindErr
               /\ sockFile' = sockFile /\ con' = con
               /\ \A h1 \in UserL \ {h} : lst'[h1] = lst[h1]]_vars

\* A second new on a bound path has failed and the first listener has then
\* been closed without error.
C9_Witness ==
    \E h1, h2 \in UserL :
        /\ lst[h1].closed = "ok"
        /\ lst[h2].st = "none" /\ lst[h2].bindErr

\* All there is of path q: its socket file, the listeners bound to it and
\* the connections made through it.
PathView(q) ==
    [file |-> sockFile[q],
     ls   |-> [h \in UserL |-> IF lst[h].path = q THEN lst[h] ELSE NewLsn],
     cs   |-> [c \in UserC |->
                 IF con[c].to # NoL /\ lst[con[c].to].path = q THEN con[c] ELSE NewCon]]

\* C10: listeners on different paths do not interfere: no operation changes
\* what there is of two paths, and whether an operation on a path succeeds
\* depends on that path alone (new succeeds when the path holds no file,
\* connecting succeeds when a listener is open on the path, notify succeeds
\* while the listener connected to is open, close of a listener succeeds).
C10_PathsIndependent ==
    [][/\ \A p, q \in IpcPaths :
            p # q => PathView(p)' = PathView(p) \/ PathView(q)' = PathView(q)
       /\ \A h \in UserL : \A p \in IpcPaths :
            (ULsnNew(h, p) /\ sockFile[p] = NoL)
            => lst'[h].st = "open" /\ lst'[h].path = p
       /\ \A c \in UserC : \A p \in IpcPaths :
            (UConNew(c, p) /\ \E h \in UserL : lst[h].st = "open" /\ lst[h].path = p)
            => con'[c].st = "open" /\ lst[con'[c].to].path = p
       /\ \A c \in UserC : \A m \in IpcMsgs :
            (UConNotify(c, m) /\ con[c].to # NoL /\ lst[con[c].to].st = "open")
            => ~con'[c].sendErr /\ con'[c].nsent = con[c].nsent + 1
       /\ \A h \in UserL : ULsnClose(h) => lst'[h].closed = "ok"]_vars

\* Two listeners were bound to two paths; one has been closed without error
\* and the other has accepted a connection made through its own path.
C10_Witness ==
    \E h1, h2 \in UserL :
        /\ lst[h1].path \in IpcPaths /\ lst[h2].path \in IpcPaths
        /\ lst[h1].path # lst[h2].path
        /\ lst[h1].acc # NoC /\ con[lst[h1].acc].to = h1
        /\ lst[h2].closed = "ok"

\* C15: wait returns an error value, and its process goes on, whenever
\* accept fails, read fails or the bytes read are not valid UTF-8.
C15_WaitFailureIsErr ==
    [][\A h \in UserL :
          /\ ULsnWaitAcceptFail(h)
             => lst'[h].st = "open" /\ lst'[h].res = ErrRes
          /\ ULsnWaitReadFail(h)
             => lst'[h].st = "open" /\ lst'[h].res = ErrRes
          /\ (ULsnWaitRead(h) /\ ~Utf8Ok(ReadBuf(lst'[h].res.src)))
             => lst'[h].st = "open" /\ ~lst'[h].res.ok]_vars

\* C18: close closes the listener and unlinks its path; new on a path
\* succeeds exactly when no listener of the path is open or has gone away
\* without close, so it succeeds after new and close and fails after a
\* listener died; the file of a listener that died stays where it is.
C18_CloseUnlinks ==
    /\ [](\A h \in UserL : lst[h].st = "dead" => sockFile[lst[h].path] = h)
    /\ [][\A h \in UserL :
            /\ ULsnClose(h)
               => lst'[h].st = "closed" /\ sockFile'[lst[h].path] = NoL
            /\ \A p \in IpcPaths :
                  ULsnNew(h, p)
                  => (lst'[h].st = "open"
                      <=> ~\E h1 \in UserL :
                             lst[h1].path = p /\ lst[h1].st \in {"open", "dead"})]_vars

\* A listener was bound to a path and closed, and a second listener has
\* then been bound to the same path.
C18_Witness ==
    \E h1, h2 \in UserL :
        /\ lst[h1].closed = "ok"
        /\ lst[h2].st = "open" /\ lst[h2].path = lst[h1].path

====
